---- MODULE Spec2Model ----
(***************************************************************************)
(* Expense tracker backend (backend/main.py): the add_expense handler, the *)
(* stored Expense / ExpenseSplit rows, and calculate_group_balances with   *)
(* its two-cursor settlement loop.                                         *)
(*                                                                         *)
(* Money is a Python float in the source.  Here an amount is an integer    *)
(* number of units, UnitsPerCent units to the cent, and a percentage is an *)
(* integer number of PctUnits-ths of a percent.  A division rounds to the  *)
(* nearest unit, so the arithmetic is inexact below the cent as the float  *)
(* arithmetic is, with a coarser grain.                                    *)
(***************************************************************************)
EXTENDS Integers, Sequences, FiniteSets

\* ------------------------------------------------------------ arithmetic

\* Column(Float) amounts: the grain of an amount is 1/UnitsPerCent of a cent.
UnitsPerCent == 100

Cent == UnitsPerCent
Unit100 == 100 * Cent                \* one currency unit

\* Column(Float) percentages: a percentage p% is the integer p * PctUnits.
PctUnits == 200

\* abs(total_percentage - 100) > 0.01 : the accepted deviation, in percent units
PctTolerance == PctUnits \div 100

\* abs(x) < 0.01 in the settlement loop : the epsilon, one cent
Epsilon == Cent

Abs(x) == IF x < 0 THEN -x ELSE x

Min(a, b) == IF a <= b THEN a ELSE b

\* a / b for b > 0, rounded to the nearest unit, ties to even (float division)
RoundDiv(a, b) ==
    LET q == a \div b
        r == a % b
    IN  IF 2 * r < b THEN q
        ELSE IF 2 * r > b THEN q + 1
        ELSE IF q % 2 = 0 THEN q ELSE q + 1

\* a * p / d for d > 0, rounded as RoundDiv(a * p, d), without the large product
MulDiv(a, p, d) == (a \div d) * p + RoundDiv((a % d) * p, d)

\* round(x, 2): the nearest whole cent as a number of units; an exact tie goes
\* to the even cent (Python rounds the exact value of the float half to even)
Round2(x) == RoundDiv(x, Cent) * Cent

RECURSIVE SumSeq(_)
SumSeq(s) == IF s = <<>> THEN 0 ELSE Head(s) + SumSeq(Tail(s))

Range(s) == {s[k] : k \in 1..Len(s)}

\* ------------------------------------------------------------ bounds, inputs

\* The add_expense requests that are served.
MaxExpenses == 2

\* the only group that exists, and a group id that does not
TheGroup == 1
GroupIds == {1, 2}

\* group_members rows of the group, in the order the users query returns them;
\* user 5 exists and is in no group
GroupChoices == {<<1>>, <<1, 2, 3, 4>>}

\* ExpenseCreate.amount (gt=0) of the equal requests: 10.01 and 1000.00
Amounts == {1001 * Cent, 1000 * Unit100}

\* ExpenseCreate.amount (gt=0) of the percentage requests: 1000.00
PctAmounts == {1000 * Unit100}

Payers == {1, 2, 5}

\* ExpenseSplitCreate.percentage: <<>> is None, <<p>> is a number
Pct(p) == <<p>>
NoPct == <<>>

SplitEntry(u, p) == [user_id |-> u, percentage |-> p]

\* ExpenseCreate.splits of the percentage requests
PctSplitLists ==
    { << SplitEntry(3, Pct(50 * PctUnits)), SplitEntry(4, Pct(50 * PctUnits + 1)) >>,
      << SplitEntry(5, Pct(100 * PctUnits)) >>,
      << SplitEntry(1, Pct(100 * PctUnits)), SplitEntry(2, NoPct) >>,
      << SplitEntry(1, Pct(50 * PctUnits)), SplitEntry(2, Pct(25 * PctUnits)) >>,
      << SplitEntry(1, NoPct) >> }

Requests ==
    [group_id : GroupIds, amount : Amounts, paid_by : Payers,
     split_type : {"equal"}, splits : {<<>>}]
    \cup
    [group_id : {TheGroup}, amount : PctAmounts, paid_by : Payers,
     split_type : {"percentage"}, splits : PctSplitLists]

NoRequest == [group_id |-> 0, amount |-> 0, paid_by |-> 0,
              split_type |-> "equal", splits |-> <<>>]

\* ------------------------------------------------------------ state

VARIABLES
    members,            \* group_members rows of the group: a sequence of user ids
    expenses,           \* committed rows of the expenses table
    splits,             \* committed rows of the expense_splits table
    a_pc,               \* add_expense: "idle", or "splits" after the first commit
    a_req,              \* add_expense: the request being served
    db_expense,         \* add_expense: id of the Expense row it created, 0 if none
    q_pc,               \* calculate_group_balances: position
    q_expenses,         \* calculate_group_balances: expenses read
    q_splits,           \* calculate_group_balances: splits read
    user_net_balances,  \* user id -> paid - owes
    creditors,          \* sequence of <<user id, remaining amount>>
    debtors,            \* sequence of <<user id, remaining amount>>
    i, j,               \* cursors into debtors and creditors (1-based)
    settlements,        \* user id -> [owes, owed_by : creditor/debtor id -> amount]
    transfers,          \* history: the <<debtor, creditor, amount>> of each iteration
    balances,           \* the returned list, <<>> before it is built
    prev                \* history: the last report returned since the last write

storage == <<members, expenses, splits>>
writer == <<a_pc, a_req, db_expense>>
query == <<q_pc, q_expenses, q_splits, user_net_balances, creditors, debtors,
           i, j, settlements, transfers, balances>>
vars == <<storage, writer, query, prev>>

MemberSet == Range(members)

NoDict == [k \in {} |-> 0]
NoPrev == [valid |-> FALSE, expenses |-> <<>>, splits |-> <<>>, balances |-> <<>>]

Init ==
    /\ members \in GroupChoices
    /\ expenses = <<>>
    /\ splits = <<>>
    /\ a_pc = "idle"
    /\ a_req = NoRequest
    /\ db_expense = 0
    /\ q_pc = "idle"
    /\ q_expenses = <<>>
    /\ q_splits = <<>>
    /\ user_net_balances = NoDict
    /\ creditors = <<>>
    /\ debtors = <<>>
    /\ i = 1
    /\ j = 1
    /\ settlements = NoDict
    /\ transfers = <<>>
    /\ balances = <<>>
    /\ prev = NoPrev

\* ------------------------------------------------------------ add_expense

ExpenseRow(id, req) ==
    [id |-> id, amount |-> req.amount, paid_by |-> req.paid_by,
     split_type |-> req.split_type]

SplitRow(eid, u, amt, p) ==
    [expense_id |-> eid, user_id |-> u, amount |-> amt, percentage |-> p]

\* split.percentage or 0
PctOrZero(p) == IF p = NoPct THEN 0 ELSE p[1]

\* sum(split.percentage or 0 for split in expense.splits)
TotalPercentage(list) ==
    SumSeq([k \in 1..Len(list) |-> PctOrZero(list[k].percentage)])

\* not (abs(total_percentage - 100) > 0.01)
ValidPercentages(list) ==
    ~ (Abs(TotalPercentage(list) - 100 * PctUnits) > PctTolerance)

\* expense.amount / len(members), one row for every member of the group
EqualSplits(eid, amount, mems) ==
    [k \in 1..Len(mems) |->
        SplitRow(eid, mems[k], RoundDiv(amount, Len(mems)), NoPct)]

\* expense.amount * split_data.percentage: the division by 100 left out
PercentageAmountNoDiv(amount, p) == MulDiv(amount, p, PctUnits)

\* expense.amount * (split_data.percentage / 100)
PercentageAmount(amount, p) == MulDiv(amount, p, 100 * PctUnits)

\* one row for every entry of expense.splits
PercentageSplits(eid, amount, list) ==
    [k \in 1..Len(list) |->
        SplitRow(eid, list[k].user_id,
                 PercentageAmount(amount, list[k].percentage[1]),
                 list[k].percentage)]

\* split_data.percentage / 100 raises TypeError for a percentage of None
RaisesTypeError(list) == \E k \in 1..Len(list) : list[k].percentage = NoPct

\* The status of the HTTPException a request is turned down with before
\* anything is written, 0 for a request that passes the checks.
Rejection(req) ==
    IF req.group_id # TheGroup THEN 404
    ELSE IF req.paid_by \notin MemberSet THEN 400
    ELSE IF req.split_type = "percentage" /\ ~ ValidPercentages(req.splits) THEN 400
    ELSE 0

\* add_expense up to and including db.add(db_expense); db.commit().  A request
\* that is turned down leaves no trace: the handler raises and returns.
AddExpense(req) ==
    /\ a_pc = "idle"
    /\ Len(expenses) < MaxExpenses
    /\ IF Rejection(req) # 0
       THEN UNCHANGED <<expenses, a_pc, a_req, db_expense, prev>>
       ELSE /\ expenses' = Append(expenses, ExpenseRow(Len(expenses) + 1, req))
            /\ a_req' = req
            /\ db_expense' = Len(expenses) + 1
            /\ a_pc' = "splits"
            /\ prev' = NoPrev
    /\ UNCHANGED <<members, splits, query>>

\* The rows the second commit writes: the split rows, or none when the
\* TypeError ends the request and the session is closed without them.
CommittedSplits(req, eid, mems) ==
    IF req.split_type = "equal" THEN EqualSplits(eid, req.amount, mems)
    ELSE IF RaisesTypeError(req.splits) THEN <<>>
    ELSE PercentageSplits(eid, req.amount, req.splits)

\* add_expense from "Create splits" to its end
AddExpenseSplits ==
    /\ a_pc = "splits"
    /\ splits' = splits \o CommittedSplits(a_req, db_expense, members)
    /\ a_pc' = "idle"
    /\ a_req' = NoRequest
    /\ db_expense' = 0
    /\ prev' = NoPrev
    /\ UNCHANGED <<members, expenses, query>>

\* ------------------------------------------------------------ balances

\* db.query(Expense).filter(Expense.group_id == group_id).all()
ReadExpenses ==
    /\ q_pc = "idle"
    /\ q_expenses' = expenses
    /\ q_pc' = "read_splits"
    /\ UNCHANGED <<storage, writer, prev, q_splits, user_net_balances, creditors,
                   debtors, i, j, settlements, transfers, balances>>

\* db.query(ExpenseSplit).join(Expense).filter(Expense.group_id == group_id).all()
JoinedSplits(rows, exps) ==
    SelectSeq(rows, LAMBDA s : \E k \in 1..Len(exps) : exps[k].id = s.expense_id)

\* the rows read are rounded in place and the session writes them back
ReadSplitsRounding ==
    /\ q_pc = "read_splits"
    /\ splits' = [k \in 1..Len(splits) |->
                    [splits[k] EXCEPT !.amount = Round2(splits[k].amount)]]
    /\ q_splits' = JoinedSplits(splits', expenses)
    /\ q_pc' = "aggregate"
    /\ UNCHANGED <<members, expenses, writer, prev, q_expenses, user_net_balances,
                   creditors, debtors, i, j, settlements, transfers, balances>>

ReadSplits ==
    /\ q_pc = "read_splits"
    /\ q_splits' = JoinedSplits(splits, expenses)
    /\ q_pc' = "aggregate"
    /\ UNCHANGED <<storage, writer, prev, q_expenses, user_net_balances, creditors,
                   debtors, i, j, settlements, transfers, balances>>

\* user_paid[u]: the amounts of the expenses u paid
UserPaid(exps, u) ==
    SumSeq([k \in 1..Len(exps) |->
               IF exps[k].paid_by = u THEN exps[k].amount ELSE 0])

\* user_owes[u]: the amounts of the splits of u
UserOwes(rows, u) ==
    SumSeq([k \in 1..Len(rows) |->
               IF rows[k].user_id = u THEN rows[k].amount ELSE 0])

\* net_balance = paid - owes
NetBalance(exps, rows, u) == UserPaid(exps, u) - UserOwes(rows, u)

\* [user_id, round(net, 2)] of every user, in the order of user_net_balances
RoundedNets(users, nets) ==
    [k \in 1..Len(users) |-> <<users[k], Round2(nets[users[k]])>>]

Creditors(users, nets) == SelectSeq(RoundedNets(users, nets), LAMBDA p : p[2] > 0)

Debtors(users, nets) == SelectSeq(RoundedNets(users, nets), LAMBDA p : p[2] < 0)

\* the aggregation, the users query, the two lists and the empty settlements
Aggregate ==
    /\ q_pc = "aggregate"
    /\ LET nets == [u \in MemberSet |-> NetBalance(q_expenses, q_splits, u)]
       IN  /\ user_net_balances' = nets
           /\ creditors' = Creditors(members, nets)
           /\ debtors' = Debtors(members, nets)
    /\ settlements' = [u \in MemberSet |-> [owes |-> NoDict, owed_by |-> NoDict]]
    /\ i' = 1
    /\ j' = 1
    /\ transfers' = <<>>
    /\ q_pc' = "settle"
    /\ UNCHANGED <<storage, writer, prev, q_expenses, q_splits, balances>>

\* settlements[...]["owes"] = {k: v}: the dict is replaced, not updated
DictPutReplacing(d, k, v) == [x \in {k} |-> v]

\* d[k] = v on a dict
DictPut(d, k, v) == [x \in DOMAIN d \cup {k} |-> IF x = k THEN v ELSE d[x]]

\* min(debtor_amt, creditor_amt): the debtor's amount not negated
SettleAmtSigned(debtor_amt, creditor_amt) == Min(debtor_amt, creditor_amt)

\* settle_amt = min(-debtor_amt, creditor_amt)
SettleAmt(debtor_amt, creditor_amt) == Min(-debtor_amt, creditor_amt)

\* while i < len(debtors) and j < len(creditors)
LoopCondition == i <= Len(debtors) /\ j <= Len(creditors)

\* "if remaining < -0.01: cursor += 1": the wrong side of the epsilon
AdvanceWrongSide(cursor, remaining) == IF remaining < - Epsilon THEN cursor + 1 ELSE cursor

\* the cursor after "if abs(remaining) < 0.01: cursor += 1"
Advance(cursor, remaining) == IF Abs(remaining) < Epsilon THEN cursor + 1 ELSE cursor

\* one iteration of the settlement loop
SettleStep ==
    /\ q_pc = "settle"
    /\ LoopCondition
    /\ LET debtor_id == debtors[i][1]
           debtor_amt == debtors[i][2]
           creditor_id == creditors[j][1]
           creditor_amt == creditors[j][2]
           settle_amt == SettleAmt(debtor_amt, creditor_amt)
           owes == DictPut(settlements[debtor_id].owes, creditor_id, settle_amt)
           owed_by == DictPut(settlements[creditor_id].owed_by, debtor_id, settle_amt)
       IN  /\ settlements' =
                 [u \in DOMAIN settlements |->
                    [owes |-> IF u = debtor_id THEN owes ELSE settlements[u].owes,
                     owed_by |-> IF u = creditor_id THEN owed_by
                                 ELSE settlements[u].owed_by]]
           /\ debtors' = [debtors EXCEPT ![i] = <<debtor_id, debtor_amt + settle_amt>>]
           /\ creditors' = [creditors EXCEPT ![j] = <<creditor_id, creditor_amt - settle_amt>>]
           /\ transfers' = Append(transfers, <<debtor_id, creditor_id, settle_amt>>)
           /\ i' = Advance(i, debtor_amt + settle_amt)
           /\ j' = Advance(j, creditor_amt - settle_amt)
    /\ UNCHANGED <<storage, writer, prev, q_pc, q_expenses, q_splits,
                   user_net_balances, balances>>

\* the list of balance entries, one for every user of the group
BalanceList(users, nets, setl) ==
    [k \in 1..Len(users) |->
        [user_id |-> users[k],
         owes |-> setl[users[k]].owes,
         owed_by |-> setl[users[k]].owed_by,
         net_balance |-> Round2(nets[users[k]])]]

\* "Build final balance output", once the loop has ended
Build ==
    /\ q_pc = "settle"
    /\ ~ LoopCondition
    /\ balances' = BalanceList(members, user_net_balances, settlements)
    /\ q_pc' = "done"
    /\ UNCHANGED <<storage, writer, prev, q_expenses, q_splits, user_net_balances,
                   creditors, debtors, i, j, settlements, transfers>>

\* return balances: the request ends and its locals go
Return ==
    /\ q_pc = "done"
    /\ prev' = [valid |-> TRUE, expenses |-> q_expenses, splits |-> q_splits,
                balances |-> balances]
    /\ q_pc' = "idle"
    /\ q_expenses' = <<>>
    /\ q_splits' = <<>>
    /\ user_net_balances' = NoDict
    /\ creditors' = <<>>
    /\ debtors' = <<>>
    /\ i' = 1
    /\ j' = 1
    /\ settlements' = NoDict
    /\ transfers' = <<>>
    /\ balances' = <<>>
    /\ UNCHANGED <<storage, writer>>

Next ==
    \/ \E req \in Requests : AddExpense(req)
    \/ AddExpenseSplits
    \/ ReadExpenses
    \/ ReadSplits
    \/ Aggregate
    \/ SettleStep
    \/ Build
    \/ Return

Spec == Init /\ [][Next]_vars

TypeOK ==
    /\ a_pc \in {"idle", "splits"}
    /\ q_pc \in {"idle", "read_splits", "aggregate", "settle", "done"}
    /\ Len(expenses) <= MaxExpenses

\* ------------------------------------------------------------ properties

RECURSIVE SumOver(_, _)
SumOver(f, S) ==
    IF S = {} THEN 0
    ELSE LET x == CHOOSE y \in S : TRUE IN f[x] + SumOver(f, S \ {x})

DictSum(d) == SumOver(d, DOMAIN d)

SplitsOf(rows, eid) == SelectSeq(rows, LAMBDA s : s.expense_id = eid)

ShareSum(rows, eid) ==
    LET own == SplitsOf(rows, eid)
    IN  SumSeq([k \in 1..Len(own) |-> own[k].amount])

\* add_expense returned the expense: its split rows are committed
Accepted(e) == SplitsOf(splits, e.id) # <<>>

\* the request that created row e ends in the TypeError
Failing(e) ==
    IF db_expense = e.id
    THEN a_req.split_type = "percentage" /\ RaisesTypeError(a_req.splits)
    ELSE ~ Accepted(e)

QueryAggregated == q_pc \in {"settle", "done"}

\* the snapshot read holds accepted expenses only, each with all of its split
\* rows, and no other split row
SnapshotComplete ==
    /\ \A k \in 1..Len(q_expenses) :
          /\ Accepted(q_expenses[k])
          /\ SplitsOf(q_splits, q_expenses[k].id) = SplitsOf(splits, q_expenses[k].id)
    /\ \A k \in 1..Len(q_splits) :
          \E n \in 1..Len(q_expenses) : q_expenses[n].id = q_splits[k].expense_id

\* the sum of the reported net balances
ReportedNetSum == SumSeq([k \in 1..Len(balances) |-> balances[k].net_balance])

\* an entry's net balance once every reported transfer is applied
Remaining(entry) == entry.net_balance + DictSum(entry.owes) - DictSum(entry.owed_by)

TransferSum == SumSeq([k \in 1..Len(transfers) |-> transfers[k][3]])

ShareDeviation(e) == Abs(ShareSum(splits, e.id) - e.amount)

\* C1: for a snapshot of accepted expenses, the reported net balances of the
\* group's members sum to zero within 0.01.
C1_ZeroSum ==
    (q_pc = "done" /\ SnapshotComplete) => Abs(ReportedNetSum) <= Cent

\* C2 (as claimed): the shares of every accepted expense sum to the expense
\* amount within 0.01, under both policies.
C2_SplitConservation ==
    \A k \in 1..Len(expenses) :
        Accepted(expenses[k]) => ShareDeviation(expenses[k]) <= Cent

\* C2 (amended): the shares of an accepted expense sum to the amount within
\* 0.01 under the equal policy, and within 0.01 + amount * 0.0001 under the
\* percentage policy, 0.0001 being the accepted deviation of the percentages
\* (0.01) over 100.
C2_SplitConservationScaled ==
    \A k \in 1..Len(expenses) :
        LET e == expenses[k]
        IN  Accepted(e) =>
              IF e.split_type = "equal"
              THEN ShareDeviation(e) <= Cent
              ELSE ShareDeviation(e) <=
                      Cent + (e.amount * PctTolerance) \div (100 * PctUnits)

\* an accepted percentage expense whose shares miss the amount by more than 0.01
C2_Witness ==
    \E k \in 1..Len(expenses) :
        /\ Accepted(expenses[k])
        /\ expenses[k].split_type = "percentage"
        /\ ShareDeviation(expenses[k]) > Cent

\* C3: for a snapshot of accepted expenses, applying every reported transfer
\* leaves every member's rounded net balance at 0 within 0.01.
C3_SettlementCorrect ==
    (q_pc = "done" /\ SnapshotComplete) =>
        \A k \in 1..Len(balances) : Abs(Remaining(balances[k])) <= Cent

\* C4: a step of add_expense that fails for an invalid split (the 400 for the
\* percentage sum, the TypeError for a missing percentage) leaves neither the
\* Expense row nor a split row of the request in the tables.
C4_AtomicRejection ==
    [][ /\ (\E req \in Requests :
               /\ req.split_type = "percentage"
               /\ ~ ValidPercentages(req.splits)
               /\ AddExpense(req))
           => UNCHANGED <<expenses, splits>>
        /\ (a_pc = "splits" /\ a_pc' = "idle" /\ Failing([id |-> db_expense]))
           => /\ \A k \in 1..Len(expenses') : expenses'[k].id # db_expense
              /\ \A k \in 1..Len(splits') : splits'[k].expense_id # db_expense
      ]_vars

\* C5: every expense a balance computation has read comes with its split
\* rows (rows of requests that end in the TypeError have none to come with).
C5_NoTornRead ==
    q_pc \in {"aggregate", "settle", "done"} =>
        \A k \in 1..Len(q_expenses) :
            ~ Failing(q_expenses[k]) => SplitsOf(q_splits, q_expenses[k].id) # <<>>

\* C6: no balance list is returned whose net balances do not sum to zero
\* within 0.01; such a computation ends in an error instead.
C6_IntegritySurfaced ==
    q_pc = "done" => ~ (Len(balances) = Len(members) /\ Abs(ReportedNetSum) > Cent)

\* C7: the loop emits at most len(debtors) + len(creditors) - 1 transfers when
\* both lists are non-empty, and none when either is empty.
C7_CardinalityBound ==
    QueryAggregated =>
        IF Len(debtors) > 0 /\ Len(creditors) > 0
        THEN Len(transfers) <= Len(debtors) + Len(creditors) - 1
        ELSE Len(transfers) = 0

\* two debtors and two creditors settled with exactly three transfers
C7_Witness ==
    /\ q_pc = "done"
    /\ Len(debtors) = 2
    /\ Len(creditors) = 2
    /\ Len(transfers) = 3

\* a step of calculate_group_balances
QueryStep == q_pc' # q_pc \/ transfers' # transfers

SameSnapshotAsPrev ==
    /\ q_pc = "done"
    /\ prev.valid
    /\ prev.expenses = q_expenses
    /\ prev.splits = q_splits

Iteration == q_pc = "settle" /\ Len(transfers') = Len(transfers) + 1

\* every iteration leaves the current debtor entry or the current creditor
\* entry below 0.01 in magnitude and advances at least one cursor; neither
\* cursor moves back or runs past the end of its list
C9_IterationAdvances ==
    [][Iteration =>
          /\ Abs(debtors'[i][2]) < Epsilon \/ Abs(creditors'[j][2]) < Epsilon
          /\ i' >= i /\ j' >= j
          /\ i' + j' > i + j
          /\ i' <= Len(debtors) + 1 /\ j' <= Len(creditors) + 1
      ]_vars

\* the loop has ended after more than one iteration
C9_Witness ==
    /\ q_pc = "settle"
    /\ ~ LoopCondition
    /\ Len(transfers) >= 3

PairOf(t) == <<t[1], t[2]>>

\* C10: no (debtor, creditor) pair is matched twice; the amounts in the owes
\* maps sum to the amounts of the transfers the loop computed; every owes
\* entry has an equal owed_by entry and every owed_by entry an equal owes entry.
C10_NoTransferLost ==
    QueryAggregated =>
        /\ \A m, n \in 1..Len(transfers) :
              PairOf(transfers[m]) = PairOf(transfers[n]) => m = n
        /\ SumOver([u \in DOMAIN settlements |-> DictSum(settlements[u].owes)],
                   DOMAIN settlements) = TransferSum
        /\ \A d \in DOMAIN settlements : \A c \in DOMAIN settlements[d].owes :
              /\ d \in DOMAIN settlements[c].owed_by
              /\ settlements[c].owed_by[d] = settlements[d].owes[c]
        /\ \A c \in DOMAIN settlements : \A d \in DOMAIN settlements[c].owed_by :
              /\ c \in DOMAIN settlements[d].owes
              /\ settlements[d].owes[c] = settlements[c].owed_by[d]
        /\ q_pc = "done" =>
              \A k \in 1..Len(balances) :
                 /\ balances[k].owes = settlements[balances[k].user_id].owes
                 /\ balances[k].owed_by = settlements[balances[k].user_id].owed_by

\* a report in which one debtor pays two creditors
C10_Witness ==
    /\ q_pc = "done"
    /\ Len(transfers) >= 3
    /\ \E k \in 1..Len(balances) : Cardinality(DOMAIN balances[k].owes) = 2

\* ------------------------------------------------------------ termination

\* A request that has started is run to its end: the handler's thread keeps
\* executing the loop and the code after it.
FairSpec == Spec /\ WF_vars(SettleStep) /\ WF_vars(Build)

\* C9: every iteration leaves the current debtor entry or the current creditor
\* entry below 0.01 in magnitude and advances at least one cursor, and the loop
\* ends: a computation that has entered it returns its list.
C9_LoopTerminates ==
    /\ C9_IterationAdvances
    /\ (q_pc = "settle") ~> (q_pc = "done")

====
